---- MODULE Spec2Model ----
(***************************************************************************)
(* aihubkr: the CLI download mode (cli/main.py), the download pipeline and *)
(* the part merger (core/downloader.py), the response preprocessor, the    *)
(* tree parser (core/filelist_parser.py), the API key check                *)
(* (core/auth.py) and the download of the GUI (gui/main.py).               *)
(*                                                                         *)
(* Seven specifications share the variables:                               *)
(*   Spec        main() of the CLI, then download_and_process_dataset      *)
(*   SpecMerge   _merge_parts_in_subdirs over an extracted directory tree  *)
(*   SpecSize    the size band computed for one size token                 *)
(*   SpecParse   parse_tree_output, one body line per step                 *)
(*   SpecProcess _process_response, get_file_tree and get_dataset_info     *)
(*   SpecAuth    validate_api_key and load_credentials                     *)
(*   SpecGui     start_download, the worker thread and download_finished   *)
(*                                                                         *)
(* File names are sequences of tokens: ".part" and ".PART" stand for those *)
(* five characters, every other token for itself.  No token is a prefix of *)
(* another, so str.startswith is the prefix relation on token sequences.   *)
(* File keys are the server's serial numbers, one per file.                *)
(***************************************************************************)
EXTENDS Integers, Sequences, FiniteSets, TLC

VARIABLES
    pc,              \* position of the running program
    args,            \* parsed command line: mode, datasetkey, filekey
    available_space, \* f_frsize * f_bavail of the output directory
    paths,           \* flat list returned by parse_tree_output
    min_total_size,  \* main(): summed min band
    max_total_size,  \* main(): summed max band
    cli_out,         \* last message printed by main(), "Traceback" if it died
    requested,       \* the HTTP requests issued so far
    response,        \* what the download request met
    form_url,        \* URL handed to webbrowser.open, <<>> if none
    tar_file,        \* "absent" or "present": <output_dir>/dataset.tar
    log,             \* pipeline steps completed, in order
    result,          \* value of download_and_process_dataset
    info_result,     \* value of get_dataset_info
    fs,              \* directory -> (file name -> bytes)
    walk,            \* directories os.walk has not visited yet
    cur_dir,         \* target_dir of the running _merge_parts
    part_files,      \* _merge_parts: part_files
    prefixes,        \* _merge_parts: prefixes not merged yet
    extracted,       \* the tree as tar.extractall left it
    io_error,        \* <<directory, prefix>> of the group whose I/O failed
    size_token,      \* the size token of a file line
    band,            \* (display, min, max) computed for size_token
    body_lines,      \* parse_tree_output: body.splitlines()
    line_idx,        \* parse_tree_output: position in body_lines
    nodes,           \* the Node objects created so far, in creation order
    node,            \* parse_tree_output: node (index into nodes)
    parent,          \* parse_tree_output: parent (index into nodes)
    parsed_paths,    \* parse_tree_output: paths
    parse_ret,       \* value of parse_tree_output
    status_code,     \* response.status_code
    text,            \* response.text.split("\n")
    processed,       \* value of _process_response(response)
    reprocessed,     \* value of _process_response on processed's content
    tree_result,     \* value of get_file_tree / get_dataset_info
    api_key,         \* AIHubAuth.api_key
    auth_reply,      \* what the validation request met
    auth_ret,        \* value of validate_api_key
    auth_sent,       \* the validation request went out
    autosave_enabled, \* AIHubAuth.autosave_enabled
    config_db,       \* AIHubConfig.config_db: api_key and version, if any
    save_count,      \* calls of AIHubConfig.save_to_disk
    load_ret,        \* value of load_credentials
    output_dir,      \* GUI: text of the output directory field
    download_button, \* GUI: the Download button is enabled
    other_controls,  \* GUI: the five controls disabled during a download
    is_downloading,  \* GUI: AIHubDownloaderGUI.is_downloading
    messages,        \* signals emitted by the worker, not yet delivered
    status_log,      \* GUI: last message of log_status
    threads_started  \* GUI: DownloadThread objects started so far

vars == <<pc, args, available_space, paths, min_total_size, max_total_size,
          cli_out, requested, response, form_url, tar_file, log, result,
          info_result, fs, walk, cur_dir, part_files, prefixes, extracted,
          io_error,
          size_token, band, body_lines, line_idx, nodes, node, parent,
          parsed_paths, parse_ret, status_code, text, processed, reprocessed,
          tree_result, api_key, auth_reply, auth_ret, auth_sent,
          autosave_enabled, config_db, save_count, load_ret,
          output_dir, download_button, other_controls, is_downloading,
          messages, status_log, threads_started>>

cliVars == <<args, available_space, paths, min_total_size, max_total_size>>
netVars == <<requested, response, form_url>>
mergeVars == <<fs, walk, cur_dir, part_files, prefixes, extracted, io_error>>
sizeVars == <<size_token, band>>
parseVars == <<body_lines, line_idx, nodes, node, parent, parsed_paths, parse_ret>>
textVars == <<status_code, text, processed, reprocessed, tree_result>>
authVars == <<api_key, auth_reply, auth_ret, auth_sent, autosave_enabled,
              config_db, save_count, load_ret>>
guiVars == <<output_dir, download_button, other_controls, is_downloading,
             messages, status_log, threads_started>>

(***************************************************************************)
(* Bounds                                                                  *)
(***************************************************************************)
MaxSelLen == 2      \* keys in the -filekey selector
MaxWhole == 12      \* integer part of a size token

(***************************************************************************)
(* Generic helpers                                                         *)
(***************************************************************************)
Range(s) == {s[i] : i \in DOMAIN s}

\* every sequence that lists the finite set S once
SeqsOf(S) ==
    {s \in [1..Cardinality(S) -> S] : Range(s) = S}

RECURSIVE SumOver(_, _)
SumOver(S, f) ==
    IF S = {} THEN 0
    ELSE LET x == CHOOSE y \in S : TRUE
         IN  f[x] + SumOver(S \ {x}, f)

RECURSIVE Concat(_, _)
\* the bytes of the files order[1], order[2], ... one after the other
Concat(order, files) ==
    IF order = <<>> THEN <<>>
    ELSE files[Head(order)] \o Concat(Tail(order), files)

(***************************************************************************)
(* File names and directory trees                                          *)
(***************************************************************************)
Digits == {"0", "1", "2", "3", "4", "5", "6", "7", "8", "9"}

DigitValue ==
    [d \in Digits |->
        CASE d = "0" -> 0 [] d = "1" -> 1 [] d = "2" -> 2 [] d = "3" -> 3
          [] d = "4" -> 4 [] d = "5" -> 5 [] d = "6" -> 6 [] d = "7" -> 7
          [] d = "8" -> 8 [] d = "9" -> 9]

XPart1 == <<"x", ".part", "1">>
XPart2 == <<"x", ".part", "2">>
XPart10 == <<"x", ".part", "1", "0">>
X2Part1 == <<"x", "2", ".part", "1">>
YPart1 == <<"y", ".part", "1">>
YPart2 == <<"y", ".part", "2">>
XUpper1 == <<"x", ".PART", "1">>
XUpper2 == <<"x", ".PART", "2">>
Readme == <<"readme">>

\* the names a file of the output directory may have
RootNames == {XPart1, XPart2, XPart10, X2Part1, YPart1, XUpper1, XUpper2, Readme}

\* the bytes each extracted file holds: one distinct byte per file
InitialBytes(f) ==
    CASE f = XPart1 -> <<11>>
      [] f = XPart2 -> <<12>>
      [] f = XPart10 -> <<13>>
      [] f = X2Part1 -> <<21>>
      [] f = YPart1 -> <<31>>
      [] f = YPart2 -> <<32>>
      [] f = XUpper1 -> <<41>>
      [] f = XUpper2 -> <<42>>
      [] OTHER -> <<99>>

OutDir == "out"
SubDir == "out/sub"
Dirs == {OutDir, SubDir}

\* os.walk is top-down: a directory is listed after its parent
ParentDir(d) == IF d = SubDir THEN OutDir ELSE "none"

FilesOf(names) == [f \in names |-> InitialBytes(f)]

TreeOf(rootNames, subNames) ==
    [d \in Dirs |-> IF d = OutDir THEN FilesOf(rootNames) ELSE FilesOf(subNames)]

EmptyTree == TreeOf({}, {})

\* the trees dataset.tar may unpack to in a run of the whole pipeline
Archives ==
    { TreeOf({Readme}, {}),
      TreeOf({Readme}, {XPart1, XPart2, XPart10}),
      TreeOf({XPart1, X2Part1}, {YPart1, YPart2}) }

\* the trees the merger is run on by itself
MergeTrees ==
    {TreeOf(r, s) : r \in SUBSET RootNames, s \in {{}, {YPart1, YPart2}}}

(***************************************************************************)
(* _merge_parts: the string and regex operations                           *)
(***************************************************************************)
IsDigit(t) == t \in Digits

\* re.search(r".*\.part[0-9]+", f, re.IGNORECASE)
IsPartFile(f) ==
    \E i \in 1..(Len(f) - 1) : f[i] \in {".part", ".PART"} /\ IsDigit(f[i + 1])

\* position of the last ".part" (str.rsplit is case-sensitive), 0 if none
RSplitIdx(f) ==
    LET hits == {i \in 1..Len(f) : f[i] = ".part"}
    IN  IF hits = {} THEN 0 ELSE CHOOSE i \in hits : \A j \in hits : j <= i

\* f.rsplit(".part", 1)[0]
PrefixOf(f) ==
    IF RSplitIdx(f) = 0 THEN f ELSE SubSeq(f, 1, RSplitIdx(f) - 1)

\* f.rsplit(".part", 1)[1] is there (no IndexError) and int() accepts it
KeyOk(f) ==
    /\ RSplitIdx(f) > 0
    /\ RSplitIdx(f) < Len(f)
    /\ \A i \in (RSplitIdx(f) + 1)..Len(f) : IsDigit(f[i])

RECURSIVE IntOf(_)
\* int(s) of a string of digits
IntOf(s) ==
    IF s = <<>> THEN 0
    ELSE 10 * IntOf(SubSeq(s, 1, Len(s) - 1)) + DigitValue[s[Len(s)]]

\* int(x.rsplit(".part", 1)[1])
SortKey(f) == IntOf(SubSeq(f, RSplitIdx(f) + 1, Len(f)))

\* f.startswith(prefix)
StartsWith(f, prefix) ==
    Len(prefix) <= Len(f) /\ SubSeq(f, 1, Len(prefix)) = prefix

\* [f for f in part_files if f.startswith(prefix)]
PartsOf(pf, prefix) == {f \in pf : StartsWith(f, prefix)}

\* sorted(..., key=...): stable, so equal keys stay in os.listdir's order,
\* which is arbitrary
SortedOrders(parts) ==
    {s \in SeqsOf(parts) :
        \A i, j \in 1..Len(s) : i < j => SortKey(s[i]) <= SortKey(s[j])}

\* how many leading files of order open() finds
Readable(order, files) ==
    LET missing == {i \in 1..Len(order) : order[i] \notin DOMAIN files}
    IN  IF missing = {} THEN Len(order)
        ELSE (CHOOSE i \in missing : \A j \in missing : i <= j) - 1

\* one turn of the loop over prefixes, with the parts in the given order:
\* the directory afterwards, and whether an exception left the loop
MergeGroupWith(files, pf, prefix, order) ==
    LET k == Readable(order, files)
        written == Concat(SubSeq(order, 1, k), files)
        created == [n \in DOMAIN files \cup {prefix} |->
                        IF n = prefix THEN written ELSE files[n]]
    IN  IF k < Len(order)
        THEN [files |-> created, raised |-> TRUE]
        ELSE [files |-> [n \in DOMAIN created \ Range(order) |-> created[n]],
              raised |-> FALSE]

\* the outcomes of one turn of the loop over prefixes
MergeGroupOutcomes(files, pf, prefix) ==
    IF \E f \in PartsOf(pf, prefix) : ~KeyOk(f)
    THEN {[files |-> files, raised |-> TRUE]}
    ELSE {MergeGroupWith(files, pf, prefix, order) :
            order \in SortedOrders(PartsOf(pf, prefix))}

\* one turn of the loop over prefixes in which open(), read() or write()
\* raises OSError: at the open() of the output file, or at the k-th part
\* with the parts before it written
MergeGroupIoErrors(files, pf, prefix) ==
    IF \E f \in PartsOf(pf, prefix) : ~KeyOk(f)
    THEN {}
    ELSE {[files |-> files, raised |-> TRUE]}
         \cup UNION {{[files |-> [n \in DOMAIN files \cup {prefix} |->
                                     IF n = prefix
                                     THEN Concat(SubSeq(order, 1, k - 1), files)
                                     ELSE files[n]],
                        raised |-> TRUE] : k \in 1..Readable(order, files)} :
                      order \in SortedOrders(PartsOf(pf, prefix))}

(***************************************************************************)
(* The CLI: inputs                                                         *)
(***************************************************************************)
DatasetKeys == {"71", "593"}

\* the keys -filekey may name, after split(",")
SelectorKeys == {"all", "1", "2", "99"}

Selectors == UNION {[1..n -> SelectorKeys] : n \in 1..MaxSelLen}

FreeSpaces == {1000, 3000, 3400, 6000}

RootEntry ==
    [path |-> "dataset_001", is_file |-> FALSE, file_key |-> "",
     display |-> 0, min |-> 0, max |-> 0]

FileEntry(path, key, display, min, max) ==
    [path |-> path, is_file |-> TRUE, file_key |-> key,
     display |-> display, min |-> min, max |-> max]

\* the flat lists parse_tree_output may hand to main()
Listings ==
    { <<RootEntry>>,
      <<RootEntry,
        FileEntry("dataset_001/README.txt", "1", 1000, 900, 1100),
        FileEntry("dataset_001/data.txt", "2", 2000, 1900, 2300)>>,
      <<RootEntry,
        FileEntry("dataset_001/a.bin", "1", 1536, 1024, 2560),
        FileEntry("dataset_001/b.bin", "2", 204, -307, 1228)>> }

\* what a request meets: an HTTP response with a status, or none at all
\* (requests.ConnectionError, requests.Timeout)
NoResponse == [kind |-> "none", status |-> 0]
HttpResponse(status) == [kind |-> "http", status |-> status]
Responses == {NoResponse} \cup {HttpResponse(s) : s \in {200, 401, 404, 500, 502}}

(***************************************************************************)
(* downloader.py: the requests                                             *)
(***************************************************************************)
\* _process_response: the success flag
ProcessOk(r) == r.status = 200 \/ r.status = 502

\* get_dataset_info and get_file_tree: requests.get is outside any try
GetResult(r) ==
    IF r.kind = "none" THEN "raised"
    ELSE IF ProcessOk(r) THEN "content" ELSE "None"

\* f"https://aihub.or.kr/aihubdata/data/dwld.do?dataSetSn={dataset_key}"
FormUrl(dataset_key) ==
    <<"https://aihub.or.kr/aihubdata/data/dwld.do?dataSetSn=", dataset_key>>

\* variant of DownloadWithRequests: without raise_for_status() the body of
\* an error response is written to the archive
DownloadWithRequestsUnchecked(r, dataset_key) ==
    IF r.kind = "none"
    THEN [ret |-> "raised", form_url |-> <<>>, tar |-> "absent"]
    ELSE [ret |-> "True", form_url |-> <<>>, tar |-> "present"]

\* _download_with_requests: the value returned ("raised": an exception
\* leaves the function), the URL opened in the browser, the archive written
DownloadWithRequests(r, dataset_key) ==
    IF r.kind = "none"
    THEN \* e.response is None: e.response.status_code raises AttributeError
         [ret |-> "raised", form_url |-> <<>>, tar |-> "absent"]
    ELSE IF r.status >= 400
    THEN \* raise_for_status() raised HTTPError, caught as RequestException
         [ret |-> "False",
          form_url |-> IF r.status = 502 THEN FormUrl(dataset_key) ELSE <<>>,
          tar |-> "absent"]
    ELSE [ret |-> "True", form_url |-> <<>>, tar |-> "present"]

(***************************************************************************)
(* cli/main.py: the preflight of download mode                             *)
(***************************************************************************)
\* file_paths = [item for item in paths if item[1]]
FilePaths(ps) == SelectSeq(ps, LAMBDA e : e.is_file)

\* file_db[file_key] = (...) for each row: a later row replaces an earlier one
FileDb(ps) ==
    LET fp == FilePaths(ps)
        keys == {fp[i].file_key : i \in DOMAIN fp}
        last(k) == CHOOSE i \in DOMAIN fp :
                      /\ fp[i].file_key = k
                      /\ \A j \in DOMAIN fp : fp[j].file_key = k => j <= i
    IN  [k \in keys |-> fp[last(k)]]

RECURSIVE SumTotals(_, _, _, _, _)
\* the loop over args["filekey"].split(","), from position i on
SumTotals(filekey, db, i, mn, mx) ==
    IF i > Len(filekey) THEN [found |-> TRUE, min |-> mn, max |-> mx]
    ELSE IF filekey[i] = "all"
    THEN [found |-> TRUE,
          min |-> SumOver(DOMAIN db, [k \in DOMAIN db |-> db[k].min]),
          max |-> SumOver(DOMAIN db, [k \in DOMAIN db |-> db[k].max])]
    ELSE IF filekey[i] \notin DOMAIN db
    THEN [found |-> FALSE, min |-> mn, max |-> mx]
    ELSE SumTotals(filekey, db, i + 1, mn + db[filekey[i]].min,
                   mx + db[filekey[i]].max)

\* the disk check: max_total_size > available_space
InsufficientSpace(mx, free) == mx > free

\* variant of PreflightResult: the disk check reads the min total
PreflightResultByMin(filekey, ps, free) ==
    LET t == SumTotals(filekey, FileDb(ps), 1, 0, 0)
    IN  [out |-> IF ~t.found THEN "KeyNotFound"
                 ELSE IF InsufficientSpace(t.min, free)
                      THEN "InsufficientDiskSpace"
                      ELSE "FreeDiskSpace",
         min |-> t.min, max |-> t.max]

\* lines 182-215 of main(): what is printed last and the totals
PreflightResult(filekey, ps, free) ==
    LET t == SumTotals(filekey, FileDb(ps), 1, 0, 0)
    IN  [out |-> IF ~t.found THEN "KeyNotFound"
                 ELSE IF InsufficientSpace(t.max, free)
                      THEN "InsufficientDiskSpace"
                      ELSE "FreeDiskSpace",
         min |-> t.min, max |-> t.max]

(***************************************************************************)
(* filelist_parser.py: the size band of a size token                       *)
(*                                                                         *)
(* A token <whole>[.<digit>]<unit>B is the record of its fields.  float()  *)
(* of a number with one decimal digit is the number of tenths; the band    *)
(* int(tenths / 10 * 1024 ** e) is computed exactly (the double arithmetic *)
(* of the program gives the same integers for these tokens).  A byte count *)
(* is the pair hi * Limb + lo, both of one sign, so that sizes up to TB    *)
(* stay within 32-bit integers.                                            *)
(***************************************************************************)
Kibi == 1024

Limb == Kibi * Kibi

\* the letters of " KMGT"
UnitLetters == <<" ", "K", "M", "G", "T">>

Units == {"", "K", "M", "G", "T"}

\* " KMGT".index(unit); the empty string is found at 0
UnitIndex(unit) ==
    IF unit = "" THEN 0
    ELSE (CHOOSE i \in DOMAIN UnitLetters : UnitLetters[i] = unit) - 1

RECURSIVE Pow(_, _)
Pow(b, e) == IF e = 0 THEN 1 ELSE b * Pow(b, e - 1)

SizeTokens ==
    [whole : 0..MaxWhole, frac : {<<>>} \cup {<<d>> : d \in 0..9}, unit : Units]

\* float(size), in tenths
Tenths(tok) == 10 * tok.whole + (IF tok.frac = <<>> THEN 0 ELSE tok.frac[1])

\* m * 1024 ** e for m >= 0
Scaled(m, e) ==
    IF e <= 1
    THEN [hi |-> (m * Pow(Kibi, e)) \div Limb, lo |-> (m * Pow(Kibi, e)) % Limb]
    ELSE [hi |-> m * Pow(Kibi, e - 2), lo |-> 0]

\* int(k / 10 * 1024 ** e): int() truncates towards zero
TruncScaled(k, e) ==
    LET m == IF k < 0 THEN -k ELSE k
        sign == IF k < 0 THEN -1 ELSE 1
        x == Scaled(m, e)
    IN  [hi |-> sign * (x.hi \div 10),
         lo |-> sign * (((x.hi % 10) * Limb + x.lo) \div 10)]

\* file_display_size
DisplaySize(tok) == TruncScaled(Tenths(tok), UnitIndex(tok.unit))

\* file_min_possible_size: int((size - 0.5) * 1024 ** e)
MinPossibleSize(tok) == TruncScaled(Tenths(tok) - 5, UnitIndex(tok.unit))

\* variant of MaxPossibleSize: a band symmetric about the displayed size
MaxPossibleSizeSymmetric(tok) == TruncScaled(Tenths(tok) + 5, UnitIndex(tok.unit))

\* file_max_possible_size: int((size + 1.0) * 1024 ** e)
MaxPossibleSize(tok) == TruncScaled(Tenths(tok) + 10, UnitIndex(tok.unit))

SizeBand(tok) ==
    [display |-> DisplaySize(tok), min |-> MinPossibleSize(tok),
     max |-> MaxPossibleSize(tok)]

Zero == [hi |-> 0, lo |-> 0]
NoBand == [display |-> Zero, min |-> Zero, max |-> Zero]
NoToken == [whole |-> 0, frac |-> <<>>, unit |-> ""]

(***************************************************************************)
(* Initial states                                                          *)
(***************************************************************************)
NoArgs == [mode |-> "none", datasetkey |-> "", filekey |-> <<>>]

IdleCli ==
    /\ args = NoArgs
    /\ available_space = 0
    /\ paths = <<>>
    /\ min_total_size = 0
    /\ max_total_size = 0
    /\ cli_out = ""

IdleNet ==
    /\ requested = {}
    /\ response = NoResponse
    /\ form_url = <<>>
    /\ info_result = "none"

IdleMerge ==
    /\ fs = EmptyTree
    /\ extracted = EmptyTree
    /\ walk = {}
    /\ cur_dir = "none"
    /\ part_files = {}
    /\ prefixes = {}
    /\ io_error = <<>>

IdleSize ==
    /\ size_token = NoToken
    /\ band = NoBand

IdleParse ==
    /\ body_lines = <<>>
    /\ line_idx = 0
    /\ nodes = <<>>
    /\ node = 0
    /\ parent = 0
    /\ parsed_paths = <<>>
    /\ parse_ret = "none"

\* _process_response was not called
Unprocessed == [called |-> FALSE, success |-> FALSE, content |-> <<>>]

IdleText ==
    /\ status_code = 0
    /\ text = <<>>
    /\ processed = Unprocessed
    /\ reprocessed = Unprocessed
    /\ tree_result = "none"

\* no validation request was answered
NoReply == [kind |-> "none", status |-> 0, body |-> {}]

IdleAuth ==
    /\ api_key = "None"
    /\ auth_reply = NoReply
    /\ auth_ret = "none"
    /\ auth_sent = FALSE
    /\ autosave_enabled = FALSE
    /\ config_db = [api_key |-> <<>>, version |-> <<>>]
    /\ save_count = 0
    /\ load_ret = "none"

\* no window
IdleGui ==
    /\ output_dir = ""
    /\ download_button = FALSE
    /\ other_controls = FALSE
    /\ is_downloading = FALSE
    /\ messages = <<>>
    /\ status_log = ""
    /\ threads_started = 0

\* main() is entered with the parsed arguments; the server holds the listing
\* and the output directory has its free space
Init ==
    /\ pc = "main"
    /\ \/ /\ args \in [mode : {"download"}, datasetkey : DatasetKeys \cup {""},
                       filekey : Selectors]
          /\ available_space \in FreeSpaces
          /\ paths \in Listings
       \/ /\ args = [mode |-> "list", datasetkey |-> "", filekey |-> <<>>]
          /\ available_space = 0
          /\ paths = <<>>
    /\ min_total_size = 0
    /\ max_total_size = 0
    /\ cli_out = ""
    /\ IdleNet
    /\ tar_file = "absent"
    /\ log = <<>>
    /\ result = "none"
    /\ IdleMerge
    /\ IdleSize
    /\ IdleParse
    /\ IdleText
    /\ IdleAuth
    /\ IdleGui

(***************************************************************************)
(* cli/main.py: main()                                                     *)
(***************************************************************************)
\* list mode without a dataset key: list_datasets -> get_dataset_info
ListDatasets ==
    /\ pc = "main"
    /\ args.mode = "list"
    /\ \E r \in Responses :
          /\ response' = r
          /\ info_result' = GetResult(r)
          /\ cli_out' = CASE GetResult(r) = "raised" -> "Traceback"
                          [] GetResult(r) = "None" -> "FailedToFetchDatasetInformation"
                          [] OTHER -> "DatasetList"
    /\ requested' = requested \cup {"dataset"}
    /\ pc' = "done"
    /\ UNCHANGED <<guiVars, cliVars, form_url, tar_file, log, result, mergeVars,
                   sizeVars,
                   parseVars, textVars, authVars>>

\* download mode up to the authentication (lines 143-167)
Authenticate ==
    /\ pc = "main"
    /\ args.mode = "download"
    /\ IF args.datasetkey = ""
       THEN /\ cli_out' = "DatasetKeyAndFileKeyRequired"
            /\ pc' = "done"
            /\ UNCHANGED requested
       ELSE /\ requested' = requested \cup {"login"}
            /\ \E auth_headers \in {"None", "headers"} :
                  IF auth_headers = "None"
                  THEN cli_out' = "AuthenticationFailed" /\ pc' = "done"
                  ELSE cli_out' = cli_out /\ pc' = "filetree"
    /\ UNCHANGED <<guiVars,
                   cliVars, response, form_url, info_result, tar_file, log,
                   result, mergeVars, sizeVars,
                   parseVars, textVars, authVars>>

\* get_file_tree and parse_tree_output (lines 169-180)
FetchFileTree ==
    /\ pc = "filetree"
    /\ requested' = requested \cup {"filetree"}
    /\ \E r \in Responses :
          /\ response' = r
          /\ CASE GetResult(r) = "raised" -> cli_out' = "Traceback" /\ pc' = "done"
               [] GetResult(r) = "None" ->
                      cli_out' = "FailedToFetchFileTree" /\ pc' = "done"
               [] OTHER -> cli_out' = cli_out /\ pc' = "preflight"
    /\ UNCHANGED <<guiVars,
                   cliVars, form_url, info_result, tar_file, log, result,
                   mergeVars, sizeVars,
                   parseVars, textVars, authVars>>

\* the size totals and the disk check (lines 182-215)
Preflight ==
    /\ pc = "preflight"
    /\ LET p == PreflightResult(args.filekey, paths, available_space)
       IN  /\ min_total_size' = p.min
           /\ max_total_size' = p.max
           /\ cli_out' = p.out
           /\ pc' = IF p.out = "FreeDiskSpace" THEN "download" ELSE "done"
    /\ UNCHANGED <<guiVars,
                   args, available_space, paths, netVars, info_result, tar_file,
                   log, result, mergeVars, sizeVars,
                   parseVars, textVars, authVars>>

(***************************************************************************)
(* downloader.py: download_and_process_dataset                             *)
(***************************************************************************)
\* download_dataset (line 121); on failure the function returns False
Download ==
    /\ pc = "download"
    /\ requested' = requested \cup {"download"}
    /\ \E r \in Responses :
          LET d == DownloadWithRequests(r, args.datasetkey)
          IN  /\ response' = r
              /\ form_url' = d.form_url
              /\ tar_file' = d.tar
              /\ CASE d.ret = "True" ->
                        /\ log' = Append(log, "fetch")
                        /\ pc' = "extract"
                        /\ UNCHANGED <<result, cli_out>>
                   [] d.ret = "False" ->
                        /\ result' = "False"
                        /\ cli_out' = "DownloadFailed"
                        /\ pc' = "done"
                        /\ UNCHANGED log
                   [] OTHER ->
                        /\ result' = "raised"
                        /\ cli_out' = "Traceback"
                        /\ pc' = "done"
                        /\ UNCHANGED log
    /\ UNCHANGED <<guiVars, cliVars, info_result, mergeVars, sizeVars,
                   parseVars, textVars, authVars>>

\* tar.extractall(path=output_dir): the members are written over what the
\* directory holds
Unpacked(files, tree) == [d \in Dirs |-> tree[d] @@ files[d]]

\* _extract_tar (line 128): tarfile raises on an archive it cannot read
ExtractTar ==
    /\ pc = "extract"
    /\ \/ /\ \E tree \in Archives :
                /\ fs' = Unpacked(fs, tree)
                /\ extracted' = Unpacked(fs, tree)
          /\ walk' = Dirs
          /\ log' = Append(log, "extract")
          /\ pc' = "walk"
          /\ UNCHANGED <<result, cli_out>>
       \/ /\ result' = "raised"
          /\ cli_out' = "Traceback"
          /\ pc' = "done"
          /\ UNCHANGED <<fs, extracted, walk, log>>
    /\ UNCHANGED <<guiVars,
                   cliVars, netVars, info_result, tar_file, cur_dir, part_files,
                   prefixes, io_error, sizeVars,
                   parseVars, textVars, authVars>>

\* _merge_parts_in_subdirs: os.walk yields the next directory; _merge_parts
\* is entered when one of its file names matches
WalkVisit ==
    /\ pc = "walk"
    /\ \E d \in walk :
          /\ ParentDir(d) \notin walk
          /\ walk' = walk \ {d}
          /\ IF \E f \in DOMAIN fs[d] : IsPartFile(f)
             THEN /\ cur_dir' = d
                  /\ part_files' = {f \in DOMAIN fs[d] : IsPartFile(f)}
                  /\ prefixes' = {PrefixOf(f) : f \in {g \in DOMAIN fs[d] : IsPartFile(g)}}
                  /\ pc' = "merge_parts"
             ELSE UNCHANGED <<cur_dir, part_files, prefixes, pc>>
    /\ UNCHANGED <<guiVars,
                   cliVars, netVars, info_result, tar_file, log, result, cli_out,
                   fs, extracted, io_error, sizeVars,
                   parseVars, textVars, authVars>>

\* _merge_parts: one turn of "for prefix in prefixes" (a set: any order)
MergeGroup ==
    /\ pc = "merge_parts"
    /\ \E prefix \in prefixes :
          /\ \/ \E o \in MergeGroupOutcomes(fs[cur_dir], part_files, prefix) :
                   /\ fs' = [fs EXCEPT ![cur_dir] = o.files]
                   /\ IF o.raised
                      THEN /\ result' = "raised"
                           /\ cli_out' = "Traceback"
                           /\ pc' = "done"
                      ELSE /\ pc' = IF prefixes = {prefix}
                                    THEN "walk" ELSE "merge_parts"
                           /\ UNCHANGED <<result, cli_out>>
                   /\ UNCHANGED io_error
             \/ \E o \in MergeGroupIoErrors(fs[cur_dir], part_files, prefix) :
                   /\ fs' = [fs EXCEPT ![cur_dir] = o.files]
                   /\ io_error' = <<cur_dir, prefix>>
                   /\ result' = "raised"
                   /\ cli_out' = "Traceback"
                   /\ pc' = "done"
          /\ prefixes' = prefixes \ {prefix}
    /\ UNCHANGED <<guiVars,
                   cliVars, netVars, info_result, tar_file, log, walk, cur_dir,
                   part_files, extracted, sizeVars,
                   parseVars, textVars, authVars>>

\* os.walk is exhausted: _merge_parts_in_subdirs returns
WalkDone ==
    /\ pc = "walk"
    /\ walk = {}
    /\ log' = Append(log, "merge")
    /\ pc' = "remove"
    /\ UNCHANGED <<guiVars,
                   cliVars, netVars, info_result, tar_file, result, cli_out,
                   mergeVars, sizeVars,
                   parseVars, textVars, authVars>>

\* os.remove(tar_file) (line 136)
RemoveTar ==
    /\ pc = "remove"
    /\ tar_file' = "absent"
    /\ log' = Append(log, "remove")
    /\ pc' = "return"
    /\ UNCHANGED <<guiVars,
                   cliVars, netVars, info_result, result, cli_out, mergeVars,
                   sizeVars,
                   parseVars, textVars, authVars>>

\* return True (line 137); the CLI prints the outcome
ReturnTrue ==
    /\ pc = "return"
    /\ result' = "True"
    /\ cli_out' = "DownloadCompletedSuccessfully"
    /\ pc' = "done"
    /\ UNCHANGED <<guiVars,
                   cliVars, netVars, info_result, tar_file, log, mergeVars,
                   sizeVars,
                   parseVars, textVars, authVars>>

Next ==
    \/ ListDatasets
    \/ Authenticate
    \/ FetchFileTree
    \/ Preflight
    \/ Download
    \/ ExtractTar
    \/ WalkVisit
    \/ MergeGroup
    \/ WalkDone
    \/ RemoveTar
    \/ ReturnTrue

Spec == Init /\ [][Next]_vars

(***************************************************************************)
(* The merger by itself, on every tree of MergeTrees                       *)
(***************************************************************************)
InitMerge ==
    /\ pc = "walk"
    /\ IdleCli
    /\ IdleNet
    /\ tar_file = "present"
    /\ log = <<"fetch", "extract">>
    /\ result = "none"
    /\ fs \in MergeTrees
    /\ extracted = fs
    /\ walk = Dirs
    /\ cur_dir = "none"
    /\ part_files = {}
    /\ prefixes = {}
    /\ io_error = <<>>
    /\ IdleSize
    /\ IdleParse
    /\ IdleText
    /\ IdleAuth
    /\ IdleGui

NextMerge ==
    \/ WalkVisit
    \/ MergeGroup
    \/ WalkDone
    \/ RemoveTar
    \/ ReturnTrue

SpecMerge == InitMerge /\ [][NextMerge]_vars

(***************************************************************************)
(* The size estimator by itself, on every token of SizeTokens              *)
(***************************************************************************)
InitSize ==
    /\ pc = "size"
    /\ IdleCli
    /\ IdleNet
    /\ tar_file = "absent"
    /\ log = <<>>
    /\ result = "none"
    /\ IdleMerge
    /\ size_token \in SizeTokens
    /\ band = NoBand
    /\ IdleParse
    /\ IdleText
    /\ IdleAuth
    /\ IdleGui

\* parse_tree_output, lines 126-130, for the size token of one file line
EstimateSize ==
    /\ pc = "size"
    /\ band' = SizeBand(size_token)
    /\ pc' = "done"
    /\ UNCHANGED <<guiVars,
                   cliVars, cli_out, netVars, info_result, tar_file, log, result,
                   mergeVars, size_token, parseVars, textVars, authVars>>

NextSize == EstimateSize

SpecSize == InitSize /\ [][NextSize]_vars

(***************************************************************************)
(* Properties of the merger (SpecMerge)                                    *)
(***************************************************************************)
\* the merge stage is over: it returned or an exception left it
MergeOver == pc \in {"remove", "return", "done"}

\* f is named <p>.part<N>
IsGroupPart(f, p) ==
    /\ Len(f) >= Len(p) + 2
    /\ SubSeq(f, 1, Len(p)) = p
    /\ f[Len(p) + 1] = ".part"
    /\ \A i \in (Len(p) + 2)..Len(f) : IsDigit(f[i])

PartNumber(f, p) == IntOf(SubSeq(f, Len(p) + 2, Len(f)))

GroupOf(files, p) == {f \in DOMAIN files : IsGroupPart(f, p)}

GroupPrefixes(files) ==
    {p \in UNION {{SubSeq(f, 1, i) : i \in 0..Len(f)} : f \in DOMAIN files} :
        GroupOf(files, p) # {}}

\* the parts of group p in ascending order of N
NumericOrder(files, p) ==
    CHOOSE s \in SeqsOf(GroupOf(files, p)) :
        \A i, j \in 1..Len(s) : i < j => PartNumber(s[i], p) <= PartNumber(s[j], p)

\* every part suffix of the directory is written in lower case
LowerCaseOnly(files) ==
    \A f \in DOMAIN files : \A i \in 1..Len(f) : f[i] # ".PART"

\* directory d holds exactly what merging its extracted content must give
MergedAsClaimed(d) ==
    LET before == extracted[d]
        after == fs[d]
    IN  IF GroupPrefixes(before) = {}
        THEN after = before
        ELSE \A p \in GroupPrefixes(before) :
                /\ p \in DOMAIN after
                /\ after[p] = Concat(NumericOrder(before, p), before)
                /\ \A f \in GroupOf(before, p) : f \notin DOMAIN after

\* C1: once merging is over, in every directory that held files named
\* <prefix>.part<N> the file <prefix> holds the bytes of that group's parts
\* in ascending numeric order of N and every part is deleted; a directory
\* without part files is unchanged.
C1_PartsMergedInNumericOrder ==
    (MergeOver /\ io_error = <<>> /\ \A d \in Dirs : LowerCaseOnly(extracted[d])) =>
        \A d \in Dirs : MergedAsClaimed(d)

\* group p of directory d was merged: <p> holds the parts in numeric order
\* and the parts are gone
GroupMerged(d, p) ==
    /\ p \in DOMAIN fs[d]
    /\ fs[d][p] = Concat(NumericOrder(extracted[d], p), extracted[d])
    /\ \A f \in GroupOf(extracted[d], p) : f \notin DOMAIN fs[d]

\* no group's prefix is the beginning of another group's prefix
NoNestedPrefix(groups) ==
    \A p, q \in groups : p # q => ~StartsWith(q, p)

\* C18: when open(), read() or write() fails while one part group is
\* merged, every other group of that directory and of every other
\* directory is still merged.
C18_IoFailureIsPerGroup ==
    (/\ MergeOver
     /\ io_error # <<>>
     /\ \A d \in Dirs : /\ LowerCaseOnly(extracted[d])
                        /\ NoNestedPrefix(GroupPrefixes(extracted[d])))
    => \A d \in Dirs : \A p \in GroupPrefixes(extracted[d]) :
          <<d, p>> # io_error => GroupMerged(d, p)

\* f is named <p>.part<N>, the suffix in either case
IsGroupPartAnyCase(f, p) ==
    /\ Len(f) >= Len(p) + 2
    /\ SubSeq(f, 1, Len(p)) = p
    /\ f[Len(p) + 1] \in {".part", ".PART"}
    /\ \A i \in (Len(p) + 2)..Len(f) : IsDigit(f[i])

GroupOfAnyCase(files, p) == {f \in DOMAIN files : IsGroupPartAnyCase(f, p)}

GroupPrefixesAnyCase(files) ==
    {p \in UNION {{SubSeq(f, 1, i) : i \in 0..Len(f)} : f \in DOMAIN files} :
        GroupOfAnyCase(files, p) # {}}

\* the parts of group p, in either case, in ascending order of N
NumericOrderAnyCase(files, p) ==
    CHOOSE s \in SeqsOf(GroupOfAnyCase(files, p)) :
        \A i, j \in 1..Len(s) : i < j => PartNumber(s[i], p) <= PartNumber(s[j], p)

\* C19: the suffix .part<N> is recognised in either case: once merging is
\* over, <prefix> holds the bytes of the parts named <prefix>.part<N> or
\* <prefix>.PART<N> in ascending order of N, and those parts are deleted.
C19_SuffixCaseInsensitive ==
    (/\ MergeOver
     /\ io_error = <<>>
     /\ \A d \in Dirs : NoNestedPrefix(GroupPrefixesAnyCase(extracted[d])))
    => \A d \in Dirs : \A p \in GroupPrefixesAnyCase(extracted[d]) :
          /\ p \in DOMAIN fs[d]
          /\ fs[d][p] = Concat(NumericOrderAnyCase(extracted[d], p), extracted[d])
          /\ \A f \in GroupOfAnyCase(extracted[d], p) : f \notin DOMAIN fs[d]

\* C27: when a directory holds the part groups of several prefixes, one
\* prefix being the beginning of another included, every group's merged
\* file holds the bytes of the parts named <its prefix>.part<N> and of no
\* other part, and the merge of every group completes, whatever the order
\* the groups are taken in.
C27_GroupsKeptApart ==
    (/\ MergeOver
     /\ io_error = <<>>
     /\ \A d \in Dirs : LowerCaseOnly(extracted[d]))
    => \A d \in Dirs :
          Cardinality(GroupPrefixes(extracted[d])) >= 2 =>
              \A p \in GroupPrefixes(extracted[d]) : GroupMerged(d, p)

(***************************************************************************)
(* Properties of the CLI preflight (Spec)                                  *)
(***************************************************************************)
FileKeys == {paths[i].file_key : i \in {j \in DOMAIN paths : paths[j].is_file}}

\* the files the selector asks for
SelectedKeys ==
    IF "all" \in Range(args.filekey) THEN FileKeys
    ELSE Range(args.filekey) \cap FileKeys

SelectedEntries == {i \in DOMAIN paths : paths[i].is_file /\ paths[i].file_key \in SelectedKeys}

SelectedMax == SumOver(SelectedEntries, [i \in SelectedEntries |-> paths[i].max])

SelectedMin == SumOver(SelectedEntries, [i \in SelectedEntries |-> paths[i].min])

\* the preflight ran to its end
PreflightRan ==
    \/ pc \in {"download", "extract", "walk", "merge_parts", "remove", "return"}
    \/ /\ pc = "done"
       /\ \/ cli_out \in {"KeyNotFound", "InsufficientDiskSpace"}
          \/ "download" \in requested

\* C2: the download request is issued and the archive written only if the
\* summed max band of the selected files is at most the free space; when the
\* sum exceeds the free space the run stops with "insufficient disk space"
\* and no download request is made.
C2_DownloadOnlyWithEnoughSpace ==
    /\ "download" \in requested => SelectedMax <= available_space
    /\ tar_file = "present" => SelectedMax <= available_space
    /\ (PreflightRan /\ cli_out # "KeyNotFound" /\ SelectedMax > available_space)
          => /\ pc = "done"
             /\ cli_out = "InsufficientDiskSpace"
             /\ "download" \notin requested

\* C2 witness: the archive was fetched with an estimate that just fits
C2_Witness ==
    /\ tar_file = "present"
    /\ "download" \in requested
    /\ SelectedMax = available_space

\* C3: for the selector "all" the totals are the sums of the min and max
\* bands over all file entries; for an explicit selector they are the sums
\* over the set of requested keys, each key counted once.
C3_TotalsOverSelectedSet ==
    (PreflightRan /\ cli_out # "KeyNotFound" /\
     (args.filekey = <<"all">> \/ "all" \notin Range(args.filekey)))
        => /\ min_total_size = SelectedMin
           /\ max_total_size = SelectedMax

\* C4: a selector key other than "all" that matches no file entry makes the
\* preflight fail with key-not-found, wherever the key stands, and no
\* download request is made.
C4_UnknownKeyFails ==
    (PreflightRan /\
     \E i \in DOMAIN args.filekey :
        args.filekey[i] # "all" /\ args.filekey[i] \notin FileKeys)
        => /\ cli_out = "KeyNotFound"
           /\ "download" \notin requested

(***************************************************************************)
(* Properties of the download pipeline (Spec)                              *)
(***************************************************************************)
\* the download request was answered with an HTTP error status
FetchHttpError ==
    "download" \in requested /\ response.kind = "http" /\ response.status >= 400

\* C5: a download that fails with status 502 ends in ConsentRequired with
\* the remediation URL of the dataset key; a failure with another status
\* surfaces no URL; the value the caller gets after a 502 is not the value
\* it gets after a failure with any other status.
C5_ConsentRequiredDistinct ==
    (pc = "done" /\ FetchHttpError) =>
        /\ response.status = 502 => form_url = FormUrl(args.datasetkey)
        /\ response.status # 502 => form_url = <<>>
        /\ response.status = 502 =>
              \A r \in Responses :
                 (r.kind = "http" /\ r.status >= 400 /\ r.status # 502)
                    => DownloadWithRequests(r, args.datasetkey).ret # result

\* C6: a request that meets no HTTP response gives a failure result, never
\* an uncaught exception: download_dataset returns False and
\* get_dataset_info returns None.
C6_TransportFailureIsResult ==
    (pc = "done" /\ response.kind = "none") =>
        /\ "download" \in requested => (result = "False" /\ cli_out # "Traceback")
        /\ "dataset" \in requested => (info_result = "None" /\ cli_out # "Traceback")

\* the archive was fetched and unpacking it failed
ExtractFailed == pc = "done" /\ log = <<"fetch">>

\* C7: when unpacking fails, download_and_process_dataset returns a failure
\* result, not an exception, and neither merges nor deletes the archive.
C7_CorruptArchiveIsResult ==
    ExtractFailed =>
        /\ result = "False"
        /\ fs = EmptyTree
        /\ tar_file = "present"

PipelineOrder == <<"fetch", "extract", "merge", "remove">>

\* the download request failed
FetchFailed == "download" \in requested /\ pc = "done" /\ log = <<>>

Leq(a, b) == a.hi < b.hi \/ (a.hi = b.hi /\ a.lo <= b.lo)

\* hi * Limb + lo with 0 <= lo < Limb
Normal(hi, lo) == [hi |-> hi + (lo \div Limb), lo |-> lo % Limb]

\* 2 * (max - min) - 3 * 1024 ** e: twice what max - min is off 1.5 * 1024 ** e
TwiceOff(b, e) ==
    LET three == Scaled(3, e)
    IN  Normal(2 * (b.max.hi - b.min.hi) - three.hi,
               2 * (b.max.lo - b.min.lo) - three.lo)

BandOrdered(b) == Leq(b.min, b.display) /\ Leq(b.display, b.max)

\* C9 as stated: min <= display <= max and max - min = 1.5 * 1024 ** e for
\* every accepted token.
C9_BandWidthExact ==
    pc = "done" =>
        /\ BandOrdered(band)
        /\ TwiceOff(band, UnitIndex(size_token.unit)) = Zero

\* C9 as amended: min <= display <= max; max - min = 1.5 * 1024 ** e when
\* the token has a unit letter and n >= 0.5; in every other case the
\* truncation to integers leaves max - min within 1 of 1.5 * 1024 ** e.
C9_BandWidthTruncated ==
    pc = "done" =>
        LET off == TwiceOff(band, UnitIndex(size_token.unit))
        IN  /\ BandOrdered(band)
            /\ (size_token.unit # "" /\ Tenths(size_token) >= 5) => off = Zero
            /\ \/ off.hi = 0 /\ off.lo <= 2
               \/ off.hi = -1 /\ off.lo >= Limb - 2

\* C9 witness: the band of 2.3TB was computed
C9_Witness ==
    /\ pc = "done"
    /\ size_token = [whole |-> 2, frac |-> <<3>>, unit |-> "T"]
    /\ band.display # Zero

\* C10: the min size of every band is clamped so that it is never negative.
C10_MinNeverNegative ==
    pc = "done" => Leq(Zero, band.min)

(***************************************************************************)
(* filelist_parser.py: parse_tree_output                                   *)
(*                                                                         *)
(* A body line is the record of what the regular expressions see in it:    *)
(* kind   "blank"  nothing but whitespace                                  *)
(*        "banner" starts with one of the encoding banner phrases          *)
(*        "delim"  starts with a run of "="                                *)
(*        "text"   any other line without a branch glyph                   *)
(*        "branch" <prefix><glyph><rest>, glyph being U+251C or U+2514     *)
(*                 followed by at least one U+2500                         *)
(* prefix the characters before the glyph: " " and "bar" (for U+2502)      *)
(* rest   the words after the glyph (for the other kinds: the words of the *)
(*        stripped line); "|" is the pipe between the fields of a file     *)
(* A path is the sequence of its segments, "." being the empty sequence;   *)
(* a segment is the sequence of its words.  An optional value is a         *)
(* sequence of length 0 (None) or 1.                                       *)
(***************************************************************************)
MaxLines == 4       \* lines of a body

BlankLine == [kind |-> "blank", prefix |-> <<>>, rest |-> <<>>]
BannerLine ==
    [kind |-> "banner", prefix |-> <<>>, rest |-> <<"The contents are encoded">>]
DelimLine == [kind |-> "delim", prefix |-> <<>>, rest |-> <<"=================">>]
TextLine(words) == [kind |-> "text", prefix |-> <<>>, rest |-> words]
BranchLine(prefix, words) == [kind |-> "branch", prefix |-> prefix, rest |-> words]

Indent(n) == [i \in 1..n |-> " "]
Bar == <<"bar", " ", " ", " ">>

\* size fields that match \d+(?:\.\d+)?\s*[KMGT]?B, with their fields
SizeWords ==
    ("1KB" :> [whole |-> 1, frac |-> <<>>, unit |-> "K"])
    @@ ("2.5MB" :> [whole |-> 2, frac |-> <<5>>, unit |-> "M"])

\* key fields that start with \d+, with the digits matched
KeyWords == ("7" :> "7") @@ ("8" :> "8") @@ ("9x" :> "9")

FileWords(name, size, key) == name \o <<"|", size, "|", key>>

\* the lines a body is made of
Lines ==
    { BlankLine, BannerLine, TextLine(<<"dataset_001">>),
      BranchLine(<<>>, <<"a">>),
      BranchLine(Indent(4), <<"b">>),
      BranchLine(Indent(8), <<"c">>),
      BranchLine(Bar, <<"d">>),
      BranchLine(Indent(4), FileWords(<<"f">>, "1KB", "7")),
      BranchLine(<<>>, FileWords(<<"g">>, "2.5MB", "9x")),
      BranchLine(Indent(4), FileWords(<<"h">>, "1XB", "8")),
      BranchLine(<<>>, FileWords(<<"h">>, "1KB", "k")) }

Bodies == UNION {[1..n -> Lines] : n \in 0..MaxLines}

\* the conditions of lines 68-76 and 94-102
Skipped(line) == line.kind \in {"blank", "banner", "delim"}

\* lines 66-81: the first line that is not skipped, else the first line
RootLine(lines) ==
    IF \E i \in DOMAIN lines : ~Skipped(lines[i])
    THEN lines[CHOOSE i \in DOMAIN lines :
                   /\ ~Skipped(lines[i])
                   /\ \A j \in 1..(i - 1) : Skipped(lines[j])]
    ELSE lines[1]

\* lines 84-86: strip(), then re.sub of the leading tree characters and
\* whitespace: what is left are the words of the line
RootOf(line) == line.rest

\* len(prefix) - len(prefix.lstrip())
RECURSIVE LeadingSpaces(_)
LeadingSpaces(prefix) ==
    IF prefix = <<>> \/ Head(prefix) # " " THEN 0
    ELSE 1 + LeadingSpaces(Tail(prefix))

\* a depth taken from the whole length of the prefix, glyphs included
DepthOfPrefixLength(prefix) == (Len(prefix) \div 4) + 1

\* lines 134-137
DepthOf(prefix) ==
    IF LeadingSpaces(prefix) > 0 THEN (LeadingSpaces(prefix) \div 4) + 1 ELSE 1

\* line 119: (.*)\s*\|\s*(size)\s*\|\s*(\d+) matched from the start of the
\* words; the greedy (.*) ends at the last pipe that the fields can follow.
\* 0 when there is no match, else the position of that pipe.
DataMatch(words) ==
    LET at == {i \in 1..(Len(words) - 3) :
                  /\ words[i] = "|"
                  /\ words[i + 1] \in DOMAIN SizeWords
                  /\ words[i + 2] = "|"
                  /\ words[i + 3] \in DOMAIN KeyWords}
    IN  IF at = {} THEN 0 ELSE CHOOSE i \in at : \A j \in at : j <= i

\* lines 104-131 for a line of the loop: whether a node is made of it, and
\* the node's segment, depth, key and size band
Child(line) ==
    IF Skipped(line) \/ line.kind # "branch"
    THEN [made |-> FALSE]
    ELSE IF "|" \in Range(line.rest)
    THEN IF DataMatch(line.rest) = 0
         THEN [made |-> FALSE]
         ELSE LET i == DataMatch(line.rest)
              IN  [made |-> TRUE,
                   path |-> SubSeq(line.rest, 1, i - 1),
                   depth |-> DepthOf(line.prefix),
                   file_key |-> <<KeyWords[line.rest[i + 3]]>>,
                   band |-> <<SizeBand(SizeWords[line.rest[i + 1]])>>]
    ELSE [made |-> TRUE, path |-> line.rest, depth |-> DepthOf(line.prefix),
          file_key |-> <<>>, band |-> <<>>]

\* Node(path, parent, depth) with the defaults of the dataclass
NewNode(path, parent_idx, depth, file_key, size_band) ==
    [path |-> path, parent |-> parent_idx, depth |-> depth,
     file_key |-> file_key, band |-> size_band, children |-> <<>>]

\* pathlib: parent_path / (path or Path(".")), Path("") being Path(".")
JoinPath(parent_path, segment) ==
    IF segment = <<>> THEN parent_path ELSE Append(parent_path, segment)

\* Node.full_path (lines 44-51); 0 is the parent None
RECURSIVE FullPath(_, _)
FullPath(ns, i) ==
    IF ns[i].parent = 0
    THEN JoinPath(<<>>, ns[i].path)
    ELSE JoinPath(FullPath(ns, ns[i].parent), ns[i].path)

\* lines 142-144: one turn per level, staying at a node without a parent
RECURSIVE WalkUp(_, _, _)
WalkUp(ns, p, turns) ==
    IF turns <= 0 THEN p
    ELSE WalkUp(ns, IF ns[p].parent # 0 THEN ns[p].parent ELSE p, turns - 1)

\* a cursor that follows the last node whatever its depth
NewParentIsLastNode(ns, n, p, depth) == n

\* lines 139-144: the parent of a node made at this depth
NewParent(ns, n, p, depth) ==
    IF depth > ns[n].depth THEN n
    ELSE IF depth < ns[n].depth THEN WalkUp(ns, p, ns[n].depth - depth)
    ELSE p

\* a tuple that marks every entry as a file
PathEntryAsFile(full_path, file_key, size_band) ==
    [path |-> full_path, is_file |-> TRUE, file_key |-> file_key,
     band |-> IF file_key # <<>> THEN size_band ELSE <<>>]

\* the tuple appended to paths (lines 89, 155-159)
PathEntry(full_path, file_key, size_band) ==
    [path |-> full_path, is_file |-> file_key # <<>>, file_key |-> file_key,
     band |-> IF file_key # <<>> THEN size_band ELSE <<>>]

\* the loop's variables after the root was made (lines 87-89)
RootState(lines) ==
    LET root == RootOf(RootLine(lines))
    IN  [nodes |-> <<NewNode(root, 0, 0, <<>>, <<>>)>>, node |-> 1, parent |-> 1,
         paths |-> <<PathEntry(JoinPath(<<>>, root), <<>>, <<>>)>>]

\* a loop body that makes a directory of a line whose fields do not parse
AddChildLenient(st, line) ==
    IF Skipped(line) \/ line.kind # "branch"
    THEN st
    ELSE LET c == IF Child(line).made THEN Child(line)
                  ELSE [made |-> TRUE, path |-> line.rest,
                        depth |-> DepthOf(line.prefix),
                        file_key |-> <<>>, band |-> <<>>]
             p == NewParent(st.nodes, st.node, st.parent, c.depth)
             n == Len(st.nodes) + 1
             grown == Append(st.nodes,
                             NewNode(c.path, p, c.depth, c.file_key, c.band))
         IN  [nodes |-> [grown EXCEPT ![p].children = Append(@, n)],
              node |-> n, parent |-> p,
              paths |-> Append(st.paths,
                               PathEntry(FullPath(grown, n), c.file_key, c.band))]

\* lines 92-159: one turn of the loop, from the loop's variables to their
\* new values
AddChild(st, line) ==
    LET c == Child(line)
    IN  IF ~c.made
        THEN st
        ELSE LET p == NewParent(st.nodes, st.node, st.parent, c.depth)
                 n == Len(st.nodes) + 1
                 grown == Append(st.nodes,
                                 NewNode(c.path, p, c.depth, c.file_key, c.band))
             IN  [nodes |-> [grown EXCEPT ![p].children = Append(@, n)],
                  node |-> n, parent |-> p,
                  paths |-> Append(st.paths,
                                   PathEntry(FullPath(grown, n), c.file_key,
                                             c.band))]

RECURSIVE ParseFrom(_, _, _)
ParseFrom(st, lines, i) ==
    IF i > Len(lines) THEN st ELSE ParseFrom(AddChild(st, lines[i]), lines, i + 1)

\* parse_tree_output as a whole: the list it returns, <<>> for None
ParseBody(lines) ==
    IF lines = <<>> THEN <<>> ELSE ParseFrom(RootState(lines), lines, 2).paths

(***************************************************************************)
(* parse_tree_output on every body of Bodies                               *)
(***************************************************************************)
InitParse ==
    /\ pc = "parse"
    /\ IdleCli
    /\ IdleNet
    /\ tar_file = "absent"
    /\ log = <<>>
    /\ result = "none"
    /\ IdleMerge
    /\ IdleSize
    /\ body_lines \in Bodies
    /\ line_idx = 0
    /\ nodes = <<>>
    /\ node = 0
    /\ parent = 0
    /\ parsed_paths = <<>>
    /\ parse_ret = "none"
    /\ IdleText
    /\ IdleAuth
    /\ IdleGui

\* an entry that lets the IndexError of an empty body out
ParseRootUnhandled ==
    /\ pc = "parse"
    /\ IF body_lines = <<>>
       THEN /\ parse_ret' = "raised"
            /\ pc' = "done"
            /\ UNCHANGED <<line_idx, nodes, node, parent, parsed_paths>>
       ELSE LET st == RootState(body_lines)
            IN  /\ nodes' = st.nodes
                /\ node' = st.node
                /\ parent' = st.parent
                /\ parsed_paths' = st.paths
                /\ line_idx' = 2
                /\ pc' = "lines"
                /\ UNCHANGED parse_ret
    /\ UNCHANGED <<guiVars,
                   cliVars, cli_out, netVars, info_result, tar_file, log, result,
                   mergeVars, sizeVars, body_lines, textVars, authVars>>

\* lines 60-90: the root; body_lines[0] of an empty body raises IndexError,
\* which the handler of line 161 turns into (None, None)
ParseRoot ==
    /\ pc = "parse"
    /\ IF body_lines = <<>>
       THEN /\ parse_ret' = "None"
            /\ pc' = "done"
            /\ UNCHANGED <<line_idx, nodes, node, parent, parsed_paths>>
       ELSE LET st == RootState(body_lines)
            IN  /\ nodes' = st.nodes
                /\ node' = st.node
                /\ parent' = st.parent
                /\ parsed_paths' = st.paths
                /\ line_idx' = 2
                /\ pc' = "lines"
                /\ UNCHANGED parse_ret
    /\ UNCHANGED <<guiVars,
                   cliVars, cli_out, netVars, info_result, tar_file, log, result,
                   mergeVars, sizeVars, body_lines, textVars, authVars>>

\* lines 92-159: one turn of the loop over body_lines[1:]
ParseLine ==
    /\ pc = "lines"
    /\ line_idx <= Len(body_lines)
    /\ LET st == AddChild([nodes |-> nodes, node |-> node, parent |-> parent,
                           paths |-> parsed_paths], body_lines[line_idx])
       IN  /\ nodes' = st.nodes
           /\ node' = st.node
           /\ parent' = st.parent
           /\ parsed_paths' = st.paths
    /\ line_idx' = line_idx + 1
    /\ UNCHANGED <<guiVars,
                   cliVars, cli_out, netVars, info_result, tar_file, log, result,
                   mergeVars, sizeVars, body_lines, parse_ret, pc, textVars,
                   authVars>>

\* line 160: return tree, paths
ParseReturn ==
    /\ pc = "lines"
    /\ line_idx > Len(body_lines)
    /\ parse_ret' = "tree"
    /\ pc' = "done"
    /\ UNCHANGED <<guiVars,
                   cliVars, cli_out, netVars, info_result, tar_file, log, result,
                   mergeVars, sizeVars, body_lines, line_idx, nodes, node,
                   parent, parsed_paths, textVars, authVars>>

NextParse ==
    \/ ParseRoot
    \/ ParseLine
    \/ ParseReturn

SpecParse == InitParse /\ [][NextParse]_vars

(***************************************************************************)
(* Properties of the tree parser (SpecParse)                               *)
(***************************************************************************)
\* the size and key fields of a file line parse: some pipe is followed by a
\* size field, a pipe and a key field
FieldsParse(words) ==
    \E i \in 1..(Len(words) - 3) :
        /\ words[i] = "|"
        /\ words[i + 1] \in DOMAIN SizeWords
        /\ words[i + 2] = "|"
        /\ words[i + 3] \in DOMAIN KeyWords

\* a child line with a pipe whose size or key field does not parse
Malformed(line) ==
    line.kind = "branch" /\ "|" \in Range(line.rest) /\ ~FieldsParse(line.rest)

\* a child line the parser accepts: a branch line that is not malformed
Accepted(line) == line.kind = "branch" /\ ~Malformed(line)

\* the positions of the accepted lines of body_lines[1:]
AcceptedAt == {i \in 2..Len(body_lines) : Accepted(body_lines[i])}

\* the position of the k-th accepted line
NthAccepted(k) ==
    CHOOSE i \in AcceptedAt : Cardinality({j \in AcceptedAt : j < i}) = k - 1

ParsedTree == pc = "done" /\ parse_ret = "tree"

\* C11: in every parsed tree the root has no parent, every other node is
\* strictly deeper than its parent, and the full path of every node (the
\* one its flat entry carries) is its parent's full path joined with its
\* own segment.
C11_TreeShape ==
    (pc \in {"lines", "done"} /\ parse_ret # "None") =>
        /\ Len(parsed_paths) = Len(nodes)
        /\ nodes[1].parent = 0
        /\ \A i \in 2..Len(nodes) :
              /\ nodes[i].parent \in 1..(i - 1)
              /\ nodes[i].depth > nodes[nodes[i].parent].depth
        /\ \A i \in 1..Len(nodes) :
              /\ parsed_paths[i].path = FullPath(nodes, i)
              /\ i > 1 => parsed_paths[i].path =
                              JoinPath(parsed_paths[nodes[i].parent].path,
                                       nodes[i].path)

\* C11 witness: a tree whose fourth node was put under an ancestor that is
\* neither the root nor the node before it
C11_Witness ==
    /\ ParsedTree
    /\ Len(nodes) = 4
    /\ nodes[4].parent = 2
    /\ Len(parsed_paths[4].path) = 3

\* C12: the flat list starts with the root entry (not a file, no key, no
\* band), then holds one entry per accepted child line in the order of the
\* lines; an entry is a file exactly when key and band were attached to its
\* node; the length is 1 plus the number of accepted lines.
C12_FlatListFollowsLines ==
    ParsedTree =>
        /\ Len(parsed_paths) = 1 + Cardinality(AcceptedAt)
        /\ parsed_paths[1].path = JoinPath(<<>>, RootOf(RootLine(body_lines)))
        /\ ~parsed_paths[1].is_file
        /\ parsed_paths[1].file_key = <<>>
        /\ parsed_paths[1].band = <<>>
        /\ \A k \in 1..Cardinality(AcceptedAt) :
              LET line == body_lines[NthAccepted(k)]
                  e == parsed_paths[k + 1]
                  n == nodes[k + 1]
              IN  /\ e.is_file <=> (n.file_key # <<>> /\ n.band # <<>>)
                  /\ e.is_file <=> "|" \in Range(line.rest)
                  /\ e.file_key = n.file_key
                  /\ e.band = n.band
                  /\ n.depth = DepthOf(line.prefix)
                  /\ e.path # <<>> => e.path[Len(e.path)] = n.path
                  /\ IF e.is_file
                     THEN \E i \in 1..Len(line.rest) :
                             /\ n.path = SubSeq(line.rest, 1, i - 1)
                             /\ line.rest[i] = "|"
                     ELSE n.path = line.rest

\* C12 witness: a list with a directory entry and a file entry, made of a
\* body that also holds a line that was not accepted
C12_Witness ==
    /\ ParsedTree
    /\ Len(parsed_paths) = 3
    /\ Len(body_lines) = 4
    /\ ~parsed_paths[2].is_file
    /\ parsed_paths[3].is_file

\* the body without its i-th line
Without(lines, i) == SubSeq(lines, 1, i - 1) \o SubSeq(lines, i + 1, Len(lines))

\* the position of the root line
RootAt(lines) ==
    IF \E i \in DOMAIN lines : ~Skipped(lines[i])
    THEN CHOOSE i \in DOMAIN lines :
             ~Skipped(lines[i]) /\ \A j \in 1..(i - 1) : Skipped(lines[j])
    ELSE 1

\* C13: the turn of the loop that meets a malformed child line makes no
\* node and no entry and leaves node, parent and the entries as they were;
\* the list returned is the one of the body without that line.
C13_MalformedLineDropped ==
    /\ [][(/\ pc = "lines"
           /\ line_idx <= Len(body_lines)
           /\ Malformed(body_lines[line_idx]))
          => UNCHANGED <<nodes, node, parent, parsed_paths>>]_vars
    /\ [](ParsedTree =>
            \A i \in 2..Len(body_lines) :
                (Malformed(body_lines[i]) /\ i # RootAt(body_lines)) =>
                    parsed_paths = ParseBody(Without(body_lines, i)))

\* C13 witness: a malformed line between two accepted lines
C13_Witness ==
    /\ ParsedTree
    /\ Len(body_lines) = 4
    /\ Accepted(body_lines[2])
    /\ Malformed(body_lines[3])
    /\ Accepted(body_lines[4])
    /\ Len(parsed_paths) = 3

\* C14: parse_tree_output returns (tree, paths), both set, or (None, None),
\* and never raises; an empty body gives (None, None); a body with a root
\* line and no accepted child line gives the one-entry list of the root.
C14_NeverRaises ==
    pc = "done" =>
        /\ parse_ret \in {"tree", "None"}
        /\ parse_ret = "tree" => (nodes # <<>> /\ parsed_paths # <<>>)
        /\ body_lines = <<>> => parse_ret = "None"
        /\ (body_lines # <<>> /\ AcceptedAt = {}) =>
               /\ parse_ret = "tree"
               /\ Len(parsed_paths) = 1
               /\ ~parsed_paths[1].is_file

\* C14 witness: the empty body was parsed
C14_Witness ==
    /\ pc = "done"
    /\ body_lines = <<>>
    /\ parse_ret = "None"

\* the prefix of the line begins with the vertical glyph
BeginsWithBar(line) == line.prefix # <<>> /\ Head(line.prefix) = "bar"

\* C24: the depth of a child line is floor(leading / 4) + 1 for the number
\* of leading whitespace characters of its prefix; a line whose prefix
\* begins with the vertical glyph has depth 1 and hangs directly under the
\* root, its full path being the root joined with its name, whatever the
\* line before it was.
C24_DepthFromLeadingWhitespace ==
    ParsedTree =>
        \A k \in 1..Cardinality(AcceptedAt) :
            LET line == body_lines[NthAccepted(k)]
                n == nodes[k + 1]
            IN  /\ n.depth = (LeadingSpaces(line.prefix) \div 4) + 1
                /\ BeginsWithBar(line) =>
                       /\ n.depth = 1
                       /\ n.parent = 1
                       /\ parsed_paths[k + 1].path =
                              JoinPath(parsed_paths[1].path, n.path)

\* C24 witness: a line that begins with the vertical glyph, met after a
\* line of depth 3 that hangs under a line of depth 1
C24_Witness ==
    /\ ParsedTree
    /\ Len(nodes) = 4
    /\ nodes[3].depth = 3
    /\ nodes[3].parent = 2
    /\ BeginsWithBar(body_lines[4])
    /\ nodes[4].parent = 1

\* C25: in every parsed tree a node that carries file metadata is a leaf:
\* no node made of a file line has children, even when the next accepted
\* line is deeper than the file line.
C25_FileNodesAreLeaves ==
    ParsedTree =>
        \A i \in 1..Len(nodes) :
            nodes[i].file_key # <<>> => nodes[i].children = <<>>

\* the parent a stack of ancestors keyed by depth gives the i-th node: the
\* most recent earlier node that is strictly less deep (the root, of depth
\* 0, when no other is)
StackParent(ns, i) ==
    CHOOSE j \in 1..(i - 1) :
        /\ ns[j].depth < ns[i].depth
        /\ \A k \in (j + 1)..(i - 1) : ns[k].depth >= ns[i].depth

\* C26: for every sequence of accepted child lines, jumps of more than one
\* level included, the parent the cursor gives a node is the parent the
\* stack of ancestors gives it.
C26_CursorEqualsStack ==
    ParsedTree =>
        \A i \in 2..Len(nodes) : nodes[i].parent = StackParent(nodes, i)

(***************************************************************************)
(* downloader.py: _process_response, get_file_tree, get_dataset_info       *)
(*                                                                         *)
(* A text is the sequence of its lines, text.split("\n"): never empty, the *)
(* empty string being the one empty line.  A line is a string that stands  *)
(* for every line the code treats alike.                                   *)
(***************************************************************************)
MaxBlocks == 4      \* blocks a response text is made of

Utf8Line == "The contents are encoded in UTF-8"
NormalLine == "If the following contents are not output normally,"
ModifyLine == "Please modify the character information of the OS."
NoticeOpen == "=== (notice) ==="       \* (notice) for the two-syllable word
NoticeClose == "====="
EmptyLine == ""
SpaceLine == "   "
NoticeHead == "Notice:"

BannerBlock == <<Utf8Line, NormalLine, ModifyLine>>

\* the blocks a response text is made of
Blocks ==
    { BannerBlock,
      <<NoticeOpen, NoticeClose, EmptyLine>>,
      <<NoticeOpen, SpaceLine, NoticeClose, EmptyLine>>,
      <<NoticeOpen, "maintenance", NoticeClose, EmptyLine>>,
      <<NoticeOpen, "maintenance", NoticeClose>>,
      <<"dataset_001">>,
      <<"    data.zip">>,
      <<EmptyLine>>,
      <<NoticeClose>> }

\* "\n".join of the blocks
RECURSIVE JoinBlocks(_)
JoinBlocks(bs) == IF bs = <<>> THEN <<>> ELSE Head(bs) \o JoinBlocks(Tail(bs))

Texts == {JoinBlocks(bs) : bs \in UNION {[1..n -> Blocks] : n \in 1..MaxBlocks}}

Statuses == {200, 404, 502}

\* line.strip() == ""
IsSpace(line) == line \in {EmptyLine, SpaceLine}

\* str.lstrip of a line
LStrip(line) ==
    IF line = SpaceLine THEN EmptyLine
    ELSE IF line = "    data.zip" THEN "data.zip"
    ELSE line

\* str.rstrip of a line
RStrip(line) == IF line = SpaceLine THEN EmptyLine ELSE line

\* re.search(r"={3,}\s*(notice)\s*={3,}", line)
IsNoticeOpen(line) == line = NoticeOpen

\* re.match(r"={3,}", line)
StartsWithEquals(line) == line \in {NoticeOpen, NoticeClose}

\* lines 30-36; the three lines are those that hold "UTF-8", "output
\* normally" and "modify the character information"
DropBanner(lines) ==
    IF /\ Len(lines) >= 3
       /\ lines[1] = Utf8Line
       /\ lines[2] = NormalLine
       /\ lines[3] = ModifyLine
    THEN SubSeq(lines, 4, Len(lines))
    ELSE lines

\* lines 39-46: the loop from position i with notice_start = start; the
\* positions count from 1, and 0 stands for -1
RECURSIVE FindNotice(_, _, _)
FindNotice(lines, i, start) ==
    IF i > Len(lines) THEN [notice_start |-> start, notice_end |-> 0]
    ELSE IF IsNoticeOpen(lines[i]) THEN FindNotice(lines, i + 1, i)
    ELSE IF start # 0 /\ StartsWithEquals(lines[i])
    THEN [notice_start |-> start, notice_end |-> i]
    ELSE FindNotice(lines, i + 1, start)

\* a replacement that formats the notice whatever its text
ReplaceNoticeAlways(lines) ==
    LET f == FindNotice(lines, 1, 0)
        notice == SubSeq(lines, f.notice_start + 1, f.notice_end - 1)
        before == SubSeq(lines, 1, f.notice_start - 1)
        after == SubSeq(lines, f.notice_end + 2, Len(lines))
    IN  IF f.notice_start = 0 \/ f.notice_end = 0 THEN lines
        ELSE before \o <<NoticeHead>> \o notice \o <<EmptyLine>> \o after

\* lines 48-58; the element "Notice:\n<notice>\n" is written as the lines it
\* becomes in the joined text
ReplaceNotice(lines) ==
    LET f == FindNotice(lines, 1, 0)
        notice == SubSeq(lines, f.notice_start + 1, f.notice_end - 1)
        before == SubSeq(lines, 1, f.notice_start - 1)
        after == SubSeq(lines, f.notice_end + 2, Len(lines))
    IN  IF f.notice_start = 0 \/ f.notice_end = 0 THEN lines
        ELSE IF \A k \in DOMAIN notice : IsSpace(notice[k])
        THEN before \o after
        ELSE before \o <<NoticeHead>> \o notice \o <<EmptyLine>> \o after

\* str.strip of the joined text, as lines
RECURSIVE DropLeadingSpace(_)
DropLeadingSpace(lines) ==
    IF lines = <<>> \/ ~IsSpace(Head(lines)) THEN lines
    ELSE DropLeadingSpace(Tail(lines))

RECURSIVE DropTrailingSpace(_)
DropTrailingSpace(lines) ==
    IF lines = <<>> \/ ~IsSpace(lines[Len(lines)]) THEN lines
    ELSE DropTrailingSpace(SubSeq(lines, 1, Len(lines) - 1))

Strip(lines) ==
    LET kept == DropTrailingSpace(DropLeadingSpace(lines))
    IN  IF kept = <<>> THEN <<EmptyLine>>
        ELSE [k \in 1..Len(kept) |->
                 IF k = 1 /\ k = Len(kept) THEN RStrip(LStrip(kept[k]))
                 ELSE IF k = 1 THEN LStrip(kept[k])
                 ELSE IF k = Len(kept) THEN RStrip(kept[k])
                 ELSE kept[k]]

\* lines 26-61: the cleaned content of a text
Clean(lines) == Strip(ReplaceNotice(DropBanner(lines)))

Returned(success, content) ==
    [called |-> TRUE, success |-> success, content |-> content]

\* a check that takes 502 for a failure
ProcessResponseStrict(status, lines) ==
    IF status = 200
    THEN Returned(TRUE, <<Clean(lines)>>)
    ELSE Returned(FALSE, <<>>)

\* _process_response (lines 21-63): (success, content), content being None
\* (<<>>) or the text
ProcessResponse(status, lines) ==
    IF status = 200 \/ status = 502
    THEN Returned(TRUE, <<Clean(lines)>>)
    ELSE Returned(FALSE, <<>>)

(***************************************************************************)
(* _process_response and its two callers on every status and text          *)
(***************************************************************************)
InitProcess ==
    /\ pc = "respond"
    /\ IdleCli
    /\ IdleNet
    /\ tar_file = "absent"
    /\ log = <<>>
    /\ result = "none"
    /\ IdleMerge
    /\ IdleSize
    /\ IdleParse
    /\ status_code \in Statuses
    /\ text \in Texts
    /\ processed = Unprocessed
    /\ reprocessed = Unprocessed
    /\ tree_result = "none"
    /\ IdleAuth
    /\ IdleGui

\* _process_response(response), called on the response as such
CallProcessResponse ==
    /\ pc = "respond"
    /\ processed' = ProcessResponse(status_code, text)
    /\ pc' = "processed"
    /\ UNCHANGED <<guiVars,
                   cliVars, cli_out, netVars, info_result, tar_file, log, result,
                   mergeVars, sizeVars, parseVars, status_code, text,
                   reprocessed, tree_result, authVars>>

\* get_file_tree (lines 65-74): requests.get either raises or hands the
\* response to _process_response
GetFileTree ==
    /\ pc = "respond"
    /\ \/ /\ tree_result' = "raised"
          /\ pc' = "done"
          /\ UNCHANGED processed
       \/ LET r == ProcessResponse(status_code, text)
          IN  /\ processed' = r
              /\ tree_result' = IF r.success THEN "content" ELSE "None"
              /\ pc' = "processed"
    /\ UNCHANGED <<guiVars,
                   cliVars, cli_out, netVars, info_result, tar_file, log, result,
                   mergeVars, sizeVars, parseVars, status_code, text,
                   reprocessed, authVars>>

\* get_dataset_info (lines 105-115): on success the list that
\* process_dataset_list makes of the content
GetDatasetInfo ==
    /\ pc = "respond"
    /\ \/ /\ tree_result' = "raised"
          /\ pc' = "done"
          /\ UNCHANGED processed
       \/ LET r == ProcessResponse(status_code, text)
          IN  /\ processed' = r
              /\ tree_result' = IF r.success THEN "list" ELSE "None"
              /\ pc' = "processed"
    /\ UNCHANGED <<guiVars,
                   cliVars, cli_out, netVars, info_result, tar_file, log, result,
                   mergeVars, sizeVars, parseVars, status_code, text,
                   reprocessed, authVars>>

\* _process_response on a response that carries the cleaned content
Reprocess ==
    /\ pc = "processed"
    /\ processed.success
    /\ reprocessed' = ProcessResponse(status_code, processed.content[1])
    /\ pc' = "done"
    /\ UNCHANGED <<guiVars,
                   cliVars, cli_out, netVars, info_result, tar_file, log, result,
                   mergeVars, sizeVars, parseVars, status_code, text,
                   processed, tree_result, authVars>>

\* a line of the content as parse_tree_output takes it (filelist_parser.py
\* lines 68-76 and 104-106): the banner lines begin with the phrases that
\* are skipped, a line of whitespace is skipped, and the other lines of a
\* text, which hold no branch glyph, make no child; the five "=" of the
\* closing delimiter are fewer than the run of "=" that is skipped
AsParserLine(line) ==
    IF line \in {Utf8Line, NormalLine, ModifyLine}
    THEN [kind |-> "banner", prefix |-> <<>>, rest |-> <<line>>]
    ELSE IF IsSpace(line) THEN BlankLine
    ELSE TextLine(<<RStrip(LStrip(line))>>)

\* body.splitlines() of a content that is not empty
SplitLines(lines) == [k \in 1..Len(lines) |-> AsParserLine(lines[k])]

\* list_file_tree after get_file_tree returned a content (cli/main.py lines
\* 52-58): an empty content is taken for a failure, any other is parsed
ParseFileTree ==
    /\ pc = "processed"
    /\ tree_result = "content"
    /\ processed.content[1] # <<EmptyLine>>
    /\ body_lines' = SplitLines(processed.content[1])
    /\ parsed_paths' = ParseBody(body_lines')
    /\ parse_ret' = "tree"
    /\ pc' = "parsed"
    /\ UNCHANGED <<guiVars,
                   cliVars, cli_out, netVars, info_result, tar_file, log, result,
                   mergeVars, sizeVars, line_idx, nodes, node, parent, textVars,
                   authVars>>

NextProcess ==
    \/ CallProcessResponse
    \/ GetFileTree
    \/ GetDatasetInfo
    \/ Reprocess
    \/ ParseFileTree

SpecProcess == InitProcess /\ [][NextProcess]_vars

(***************************************************************************)
(* Properties of the response preprocessor (SpecProcess)                   *)
(***************************************************************************)
\* C15: for every text with status 200 or 502, _process_response on the
\* cleaned content gives the cleaned content again.
C15_Idempotent ==
    (pc = "done" /\ reprocessed.called) => reprocessed.content = processed.content

RECURSIVE Words(_)
Words(lines) ==
    IF lines = <<>> THEN <<>>
    ELSE IF IsSpace(Head(lines)) THEN Words(Tail(lines))
    ELSE <<RStrip(LStrip(Head(lines)))>> \o Words(Tail(lines))

IsContent(line) ==
    line \notin {Utf8Line, NormalLine, ModifyLine, NoticeOpen, NoticeClose,
                 NoticeHead}

\* the text is the banner, content, a notice block from position i to j
\* with nothing but whitespace inside, the blank line, and content
BannerAndEmptyNotice(lines, i, j) ==
    /\ 3 < i /\ i < j /\ j < Len(lines)
    /\ SubSeq(lines, 1, 3) = BannerBlock
    /\ \A k \in 4..(i - 1) : IsContent(lines[k])
    /\ lines[i] = NoticeOpen
    /\ \A k \in (i + 1)..(j - 1) : IsSpace(lines[k])
    /\ lines[j] = NoticeClose
    /\ lines[j + 1] = EmptyLine
    /\ \A k \in (j + 2)..Len(lines) : IsContent(lines[k])

\* C17: for a text made of the three banner lines, content, a notice block
\* with an empty or whitespace-only interior, the blank line and content,
\* the cleaned text holds no banner line, no notice delimiter and no
\* "Notice:", and holds the content lines before the block and after the
\* blank line, in their order.
C17_EmptyNoticeRemoved ==
    (processed.called /\ processed.success) =>
        \A i, j \in 1..Len(text) :
            BannerAndEmptyNotice(text, i, j) =>
                LET out == processed.content[1]
                IN  /\ \A k \in DOMAIN out : IsContent(out[k])
                    /\ Words(out) = Words(SubSeq(text, 4, i - 1)
                                          \o SubSeq(text, j + 2, Len(text)))

\* C17 witness: content on both sides of a whitespace-only notice block
C17_Witness ==
    /\ processed.called
    /\ text = BannerBlock \o <<"dataset_001">>
                \o <<NoticeOpen, SpaceLine, NoticeClose, EmptyLine>>
                \o <<"    data.zip">>
    /\ processed.content = <<(<<"dataset_001", "    data.zip">>)>>

\* lines i to j are the one notice block of the text, with text inside
NonBlankNotice(lines, i, j) ==
    /\ i < j
    /\ lines[i] = NoticeOpen
    /\ \A k \in DOMAIN lines : k # i => lines[k] # NoticeOpen
    /\ lines[j] = NoticeClose
    /\ \A k \in (i + 1)..(j - 1) : lines[k] # NoticeClose
    /\ \E k \in (i + 1)..(j - 1) : ~IsSpace(lines[k])

\* C23: when the notice block holds text, the lines from the opening to
\* the closing delimiter are replaced by "Notice:" and that text, and every
\* line outside the block, the one right after the closing delimiter
\* included, is kept in its order.
C23_NoticeReplacedInPlace ==
    (processed.called /\ processed.success) =>
        LET lines == DropBanner(text)
        IN  \A i, j \in 1..Len(lines) :
                NonBlankNotice(lines, i, j) =>
                    Words(processed.content[1]) =
                        Words(SubSeq(lines, 1, i - 1) \o <<NoticeHead>>
                              \o SubSeq(lines, i + 1, j - 1)
                              \o SubSeq(lines, j + 1, Len(lines)))

\* the text opens with a notice block that ends at line j and holds text;
\* after the blank line the format leaves behind the closing delimiter the
\* listing follows, its first line, the dataset's root line, at r
NoticeBeforeListing(lines, j, r) ==
    /\ NonBlankNotice(lines, 1, j)
    /\ j + 1 < r /\ r <= Len(lines)
    /\ \A k \in (j + 1)..(r - 1) : IsSpace(lines[k])
    /\ \A k \in r..Len(lines) : IsContent(lines[k])
    /\ ~IsSpace(lines[r])

\* C28: for a file-tree response with a notice block that holds text before
\* the listing, _process_response followed by parse_tree_output gives the
\* dataset's root line as the root and first flat entry; neither "Notice:"
\* nor the notice text is the root or part of any flat entry.
C28_NoticeNeverRoot ==
    pc = "parsed" =>
        LET lines == DropBanner(text)
        IN  \A j, r \in 1..Len(lines) :
                NoticeBeforeListing(lines, j, r) =>
                    /\ parse_ret = "tree"
                    /\ parsed_paths[1].path = <<(<<LStrip(lines[r])>>)>>
                    /\ \A k \in DOMAIN parsed_paths :
                          \A seg \in Range(parsed_paths[k].path) :
                              \A w \in Range(seg) :
                                  /\ w # NoticeHead
                                  /\ w \notin Range(SubSeq(lines, 2, j - 1))

(***************************************************************************)
(* auth.py: validate_api_key                                               *)
(*                                                                         *)
(* A response body is the set of the phrases it holds, out of the phrases  *)
(* the function looks for; each string stands for the Korean phrase of the *)
(* source.                                                                 *)
(***************************************************************************)
CanDownload == "the requested file can be downloaded"
FileNotExist == "the requested dataset file does not exist"

\* success_candidates (lines 88-91)
SuccessCandidates == {CanDownload, FileNotExist}

\* failure_candidates (line 92)
FailureCandidates == {"authentication", "permission", "API", "key"}

\* a key with a character outside Latin-1
NonLatinKey == "non-latin-1-key"

ApiKeys == {"None", "", "valid-api-key", "invalid-api-key", NonLatinKey}

\* what requests.get meets: a response, requests.Timeout, or another
\* requests.RequestException
AuthReplies ==
    [kind : {"http"}, status : {200, 502},
     body : SUBSET (SuccessCandidates \cup FailureCandidates)]
    \cup {[kind |-> "timeout", status |-> 0, body |-> {}],
          [kind |-> "error", status |-> 0, body |-> {}]}

\* not self.api_key
NoKey(key) == key \in {"None", ""}

\* requests.get can put the key in the apikey header: http.client encodes
\* header values as Latin-1 and raises UnicodeEncodeError otherwise, which
\* is not a requests.RequestException
Encodable(key) == key # NonLatinKey

\* validate_api_key (lines 69-116): the status of the response is not read
ValidateApiKey(key, reply) ==
    IF NoKey(key) THEN "False"
    ELSE IF ~Encodable(key) THEN "raised"
    ELSE IF reply.kind # "http" THEN "False"
    ELSE IF reply.body \cap SuccessCandidates # {} THEN "True"
    ELSE IF reply.body \cap FailureCandidates # {} THEN "False"
    ELSE "False"

\* CREDENTIAL_VERSION (line 24)
CredentialVersion == "2"

NoConfig == [api_key |-> <<>>, version |-> <<>>]

\* the configurations: api_key and version are there or not
Configs == [api_key : {<<>>, <<"">>, <<"saved-api-key">>},
            version : {<<>>, <<"1">>, <<"2">>, <<"3">>}]

\* a load that takes a key of any version
LoadCredentialsAnyVersion(cfg, key, autosave) ==
    IF cfg.api_key \notin {<<>>, <<"">>}
    THEN [ret |-> cfg.api_key[1], api_key |-> cfg.api_key[1],
          autosave_enabled |-> TRUE, config_db |-> cfg, saves |-> 0]
    ELSE [ret |-> "None", api_key |-> key, autosave_enabled |-> autosave,
          config_db |-> cfg, saves |-> 0]

\* load_credentials (lines 52-67) with clear_credential (lines 30-40);
\* load_from_disk returns a dictionary that is not kept
LoadCredentialsOf(cfg, key, autosave) ==
    IF cfg.api_key \notin {<<>>, <<"">>} /\ cfg.version = <<CredentialVersion>>
    THEN [ret |-> cfg.api_key[1], api_key |-> cfg.api_key[1],
          autosave_enabled |-> TRUE, config_db |-> cfg, saves |-> 0]
    ELSE IF cfg.api_key \notin {<<>>, <<"">>}
    THEN [ret |-> "None", api_key |-> "None", autosave_enabled |-> FALSE,
          config_db |-> NoConfig, saves |-> 1]
    ELSE [ret |-> "None", api_key |-> key, autosave_enabled |-> autosave,
          config_db |-> cfg, saves |-> 0]

InitAuth ==
    /\ pc = "auth"
    /\ IdleCli
    /\ IdleNet
    /\ tar_file = "absent"
    /\ log = <<>>
    /\ result = "none"
    /\ IdleMerge
    /\ IdleSize
    /\ IdleParse
    /\ IdleText
    /\ IdleGui
    /\ api_key \in ApiKeys
    /\ auth_reply \in AuthReplies
    /\ auth_ret = "none"
    /\ auth_sent = FALSE
    /\ autosave_enabled \in {a \in BOOLEAN : a => ~NoKey(api_key)}
    /\ config_db \in Configs
    /\ save_count = 0
    /\ load_ret = "none"

\* auth.validate_api_key()
Validate ==
    /\ pc = "auth"
    /\ auth_ret' = ValidateApiKey(api_key, auth_reply)
    /\ auth_sent' = (~NoKey(api_key) /\ Encodable(api_key))
    /\ pc' = "done"
    /\ UNCHANGED <<guiVars,
                   cliVars, cli_out, netVars, info_result, tar_file, log, result,
                   mergeVars, sizeVars, parseVars, textVars, api_key, auth_reply,
                   autosave_enabled, config_db, save_count, load_ret>>

\* auth.load_credentials()
LoadCredentials ==
    /\ pc = "auth"
    /\ LET l == LoadCredentialsOf(config_db, api_key, autosave_enabled)
       IN  /\ load_ret' = l.ret
           /\ api_key' = l.api_key
           /\ autosave_enabled' = l.autosave_enabled
           /\ config_db' = l.config_db
           /\ save_count' = save_count + l.saves
    /\ pc' = "loaded"
    /\ UNCHANGED <<guiVars,
                   cliVars, cli_out, netVars, info_result, tar_file, log, result,
                   mergeVars, sizeVars, parseVars, textVars, auth_reply, auth_ret,
                   auth_sent>>

NextAuth ==
    \/ Validate
    \/ LoadCredentials

SpecAuth == InitAuth /\ [][NextAuth]_vars

(***************************************************************************)
(* Properties of the API key check (SpecAuth)                              *)
(***************************************************************************)
\* C20: validate_api_key returns False when the endpoint answers 502 with
\* the "requested dataset file does not exist" message.
C20_NotExistReplyIsFailure ==
    (/\ pc = "done"
     /\ Encodable(api_key)
     /\ auth_reply.kind = "http"
     /\ auth_reply.status = 502
     /\ FileNotExist \in auth_reply.body)
    => auth_ret = "False"

\* C21: validate_api_key returns True or False and never raises; without a
\* key it returns False and sends nothing; on a timeout, on a connection
\* error and on a body with neither a success nor a failure phrase it
\* returns False.
C21_ValidateNeverRaises ==
    pc = "done" =>
        /\ auth_ret \in {"True", "False"}
        /\ NoKey(api_key) => (auth_ret = "False" /\ ~auth_sent)
        /\ auth_reply.kind \in {"timeout", "error"} => auth_ret = "False"
        /\ (/\ auth_reply.kind = "http"
            /\ auth_reply.body \cap (SuccessCandidates \cup FailureCandidates) = {})
           => auth_ret = "False"

\* a key is stored in the configuration
StoredKey(cfg) == cfg.api_key \notin {<<>>, <<"">>}

\* C22: load_credentials takes a stored key only with version "2": then it
\* returns the key and sets api_key to it and autosave_enabled to True;
\* with a key of any other version it returns None, api_key is None,
\* autosave_enabled is False, api_key and version are removed from the
\* configuration and the configuration is saved once; with no key stored it
\* returns None and changes neither the auth object nor the configuration.
C22_LoadOnlyCurrentVersion ==
    [][(pc = "auth" /\ pc' = "loaded") =>
         /\ (StoredKey(config_db) /\ config_db.version = <<"2">>) =>
               /\ load_ret' = config_db.api_key[1]
               /\ api_key' = config_db.api_key[1]
               /\ autosave_enabled' = TRUE
               /\ config_db' = config_db
               /\ save_count' = save_count
         /\ (StoredKey(config_db) /\ config_db.version # <<"2">>) =>
               /\ load_ret' = "None"
               /\ api_key' = "None"
               /\ autosave_enabled' = FALSE
               /\ config_db' = NoConfig
               /\ save_count' = save_count + 1
         /\ config_db.api_key = <<>> =>
               /\ load_ret' = "None"
               /\ UNCHANGED <<api_key, autosave_enabled, config_db, save_count>>
      ]_vars

\* C22 witness: a key stored with version "1" was cleared
C22_Witness ==
    /\ pc = "loaded"
    /\ load_ret = "None"
    /\ api_key = "None"
    /\ config_db = NoConfig
    /\ save_count = 1

(***************************************************************************)
(* gui/main.py: the Download button, DownloadThread and its signals        *)
(*                                                                         *)
(* The main thread runs one handler at a time.  pc is the position of the  *)
(* worker thread, whose pipeline is download_and_process_dataset as above; *)
(* what the pipeline prints goes to the console (cli_out).  A signal the   *)
(* worker emits is queued for the main thread and its slot runs when the   *)
(* event loop takes it from the queue.                                     *)
(***************************************************************************)
MaxDownloads == 2   \* worker threads started in one session

\* file_keys_input.text().split(","); <<"">> is the empty text
GuiSelectors == Selectors \cup {<<"">>}

OutputDirs == {"", "out"}

GuiFreeSpaces == {1000, 6000}

ProgressSignal == [sig |-> "progress", value |-> "0"]
FinishedSignal(success) == [sig |-> "finished", value |-> success]

\* the window after construction, a dataset chosen or not, the key field
\* edited or not; the Download button is enabled when credentials were
\* loaded
InitGui ==
    /\ pc = "gui"
    /\ args \in [mode : {"gui"}, datasetkey : {"", "71"}, filekey : GuiSelectors]
    /\ available_space \in GuiFreeSpaces
    /\ paths \in Listings
    /\ min_total_size = 0
    /\ max_total_size = 0
    /\ cli_out = ""
    /\ IdleNet
    /\ tar_file = "absent"
    /\ log = <<>>
    /\ result = "none"
    /\ IdleMerge
    /\ IdleSize
    /\ IdleParse
    /\ IdleText
    /\ IdleAuth
    /\ output_dir \in OutputDirs
    /\ download_button \in BOOLEAN
    /\ other_controls = TRUE
    /\ is_downloading = FALSE
    /\ messages = <<>>
    /\ status_log = "Welcome"
    /\ threads_started = 0

\* file_keys.strip() is empty
BlankKeys(filekey) == filekey = <<"">>

RECURSIVE GuiSumTotals(_, _, _, _, _)
\* lines 427-432: file_db.get(file_key, (None, None, 0, 0)) summed over
\* file_keys.split(","), from position i on
GuiSumTotals(filekey, db, i, mn, mx) ==
    IF i > Len(filekey) THEN [min |-> mn, max |-> mx]
    ELSE IF filekey[i] \in DOMAIN db
    THEN GuiSumTotals(filekey, db, i + 1, mn + db[filekey[i]].min,
                      mx + db[filekey[i]].max)
    ELSE GuiSumTotals(filekey, db, i + 1, mn, mx)

\* authenticate (lines 369-401), the Authenticate button being enabled and
\* nobody logged in: with headers the Download button is enabled
GuiAuthenticate ==
    /\ other_controls
    /\ ~download_button
    /\ requested' = requested \cup {"login"}
    /\ \E auth_headers \in {"None", "headers"} :
          IF auth_headers = "None"
          THEN /\ status_log' = "AuthenticationFailed"
               /\ UNCHANGED download_button
          ELSE /\ status_log' = "AuthenticationSuccessful"
               /\ download_button' = TRUE
    /\ UNCHANGED <<pc, cliVars, cli_out, response, form_url, info_result, tar_file,
                   log, result, mergeVars, sizeVars, parseVars, textVars, authVars,
                   output_dir, other_controls, is_downloading, messages,
                   threads_started>>

\* start_download (lines 413-464), the slot of the Download button: a click
\* reaches it when the button is enabled.  The thread is started at line
\* 454; log, result and the merger's variables are those of the new call.
StartDownload ==
    /\ download_button
    /\ threads_started < MaxDownloads
    /\ IF args.datasetkey = "" \/ output_dir = ""
       THEN /\ status_log' = "PleaseProvideDatasetKeyAndOutputDirectory"
            /\ UNCHANGED <<pc, min_total_size, max_total_size, log, result, walk,
                           cur_dir, part_files, prefixes, io_error,
                           download_button, other_controls, is_downloading,
                           threads_started>>
       ELSE IF BlankKeys(args.filekey)
       THEN /\ status_log' = "NoFileSelected"
            /\ UNCHANGED <<pc, min_total_size, max_total_size, log, result, walk,
                           cur_dir, part_files, prefixes, io_error,
                           download_button, other_controls, is_downloading,
                           threads_started>>
       ELSE LET t == GuiSumTotals(args.filekey, FileDb(paths), 1, 0, 0)
            IN  /\ min_total_size' = t.min
                /\ max_total_size' = t.max
                /\ pc' = "run"
                /\ threads_started' = threads_started + 1
                /\ log' = <<>>
                /\ result' = "none"
                /\ walk' = {}
                /\ cur_dir' = "none"
                /\ part_files' = {}
                /\ prefixes' = {}
                /\ io_error' = <<>>
                /\ is_downloading' = TRUE
                /\ download_button' = FALSE
                /\ other_controls' = FALSE
                /\ status_log' = "DownloadingDataset"
    /\ UNCHANGED <<args, available_space, paths, cli_out, netVars, info_result,
                   tar_file, fs, extracted, sizeVars, parseVars, textVars,
                   authVars, output_dir, messages>>

\* DownloadThread.run, line 32: progress.emit(0)
EmitProgress ==
    /\ pc = "run"
    /\ messages' = Append(messages, ProgressSignal)
    /\ pc' = "download"
    /\ UNCHANGED <<cliVars, cli_out, netVars, info_result, tar_file, log, result,
                   mergeVars, sizeVars, parseVars, textVars, authVars, output_dir,
                   download_button, other_controls, is_downloading, status_log,
                   threads_started>>

\* DownloadThread.run, line 36: finished.emit(success) once the pipeline
\* returned
EmitFinished ==
    /\ pc = "done"
    /\ result \in {"True", "False"}
    /\ messages' = Append(messages, FinishedSignal(result))
    /\ pc' = "exit"
    /\ UNCHANGED <<cliVars, cli_out, netVars, info_result, tar_file, log, result,
                   mergeVars, sizeVars, parseVars, textVars, authVars, output_dir,
                   download_button, other_controls, is_downloading, status_log,
                   threads_started>>

\* DownloadThread.run, lines 33-35: an exception of the pipeline is not
\* caught; it leaves run() and the thread ends without line 36
RunRaises ==
    /\ pc = "done"
    /\ result = "raised"
    /\ pc' = "dead"
    /\ UNCHANGED <<cliVars, cli_out, netVars, info_result, tar_file, log, result,
                   mergeVars, sizeVars, parseVars, textVars, authVars, guiVars>>

\* update_progress (lines 466-469), the slot of progress
UpdateProgress ==
    /\ messages # <<>>
    /\ Head(messages).sig = "progress"
    /\ messages' = Tail(messages)
    /\ UNCHANGED <<pc, cliVars, cli_out, netVars, info_result, tar_file, log,
                   result, mergeVars, sizeVars, parseVars, textVars, authVars,
                   output_dir, download_button, other_controls, is_downloading,
                   status_log, threads_started>>

\* download_finished (lines 471-487), the slot of finished
DownloadFinished ==
    /\ messages # <<>>
    /\ Head(messages).sig = "finished"
    /\ messages' = Tail(messages)
    /\ status_log' = IF Head(messages).value = "True"
                     THEN "DownloadAndExtractionCompleted"
                     ELSE "DownloadFailed"
    /\ is_downloading' = FALSE
    /\ download_button' = TRUE
    /\ other_controls' = TRUE
    /\ UNCHANGED <<pc, cliVars, cli_out, netVars, info_result, tar_file, log,
                   result, mergeVars, sizeVars, parseVars, textVars, authVars,
                   output_dir, threads_started>>

\* the steps of the worker thread
Worker ==
    \/ EmitProgress
    \/ Download
    \/ ExtractTar
    \/ WalkVisit
    \/ MergeGroup
    \/ WalkDone
    \/ RemoveTar
    \/ ReturnTrue
    \/ EmitFinished
    \/ RunRaises

\* the slots the event loop runs for the queued signals
Deliver ==
    \/ UpdateProgress
    \/ DownloadFinished

NextGui ==
    \/ GuiAuthenticate
    \/ StartDownload
    \/ Worker
    \/ Deliver

SpecGui == InitGui /\ [][NextGui]_vars

\* the thread is scheduled until it ends and the event loop keeps taking
\* the queued signals
FairSpecGui == SpecGui /\ WF_vars(Worker) /\ WF_vars(Deliver)

(***************************************************************************)
(* Properties of the GUI download (SpecGui, FairSpecGui)                   *)
(***************************************************************************)
\* C29: start_download starts the worker only when the summed max estimate
\* of the selected file keys is at most the free space of the output
\* directory; otherwise no worker is started.
C29_WorkerOnlyIfSpace ==
    [][threads_started' > threads_started => max_total_size' <= available_space]_vars

\* C30: once start_download has started the worker, download_finished runs
\* in the end, whatever the outcome of the pipeline: is_downloading is
\* false again and the controls are enabled; and no worker is started
\* while is_downloading holds.
C30_WorkerReportsCompletion ==
    /\ [](is_downloading => <>(~is_downloading /\ download_button /\ other_controls))
    /\ [][threads_started' > threads_started => ~is_downloading]_vars

====
